---- MODULE Spec2Model ----
(***************************************************************************)
(* Model of pdf_reader.py: main() and read_pdf().  Strings are sequences   *)
(* of one-character strings; the console, the files written and the calls *)
(* to extract_text are recorded in the order in which the code makes them. *)
(***************************************************************************)
EXTENDS Integers, Sequences, FiniteSets, TLC

\* ---------------------------------------------------------------- bounds
MaxPages == 3
MaxArgs == 2

\* ------------------------------------------------------ program constants
PreviewLen == 2000
RuleLen == 50
ExitFailure == 1
ExitSuccess == 0
NoStatus == 0 - 1

\* --------------------------------------------------------- string helpers
Rep(c, n) == [i \in 1..n |-> c]

IsPrefixAt(s, i, old) ==
    /\ i + Len(old) - 1 <= Len(s)
    /\ \A k \in 1..Len(old) : s[i + k - 1] = old[k]

RECURSIVE ReplaceFrom(_, _, _, _)
ReplaceFrom(s, i, old, new) ==
    IF i > Len(s) THEN <<>>
    ELSE IF IsPrefixAt(s, i, old)
         THEN new \o ReplaceFrom(s, i + Len(old), old, new)
         ELSE <<s[i]>> \o ReplaceFrom(s, i + 1, old, new)

\* str.replace(old, new): every non-overlapping occurrence, left to right
Replace(s, old, new) == ReplaceFrom(s, 1, old, new)

RECURSIVE JoinFrom(_, _, _)
JoinFrom(list, i, sep) ==
    IF i > Len(list) THEN <<>>
    ELSE IF i = Len(list) THEN list[i]
    ELSE list[i] \o sep \o JoinFrom(list, i + 1, sep)

\* variant: the separator after every element
JoinTrailing(list, sep) ==
    IF Len(list) = 0 THEN <<>> ELSE JoinFrom(list, 1, sep) \o sep

\* sep.join(list)
Join(list, sep) == JoinFrom(list, 1, sep)

DigitChar == <<"0", "1", "2", "3", "4", "5", "6", "7", "8", "9">>

RECURSIVE Str(_)
\* str(n) for a non-negative integer
Str(n) == IF n < 10 THEN <<DigitChar[n + 1]>>
          ELSE Str(n \div 10) \o <<DigitChar[(n % 10) + 1]>>

NL == <<"\n">>

\* f"\n--- PAGE {page_num} ---\n"
Separator(n) ==
    <<"\n", "-", "-", "-", " ", "P", "A", "G", "E", " ">> \o Str(n)
        \o <<" ", "-", "-", "-", "\n">>

PdfExt == <<".", "p", "d", "f">>
ExtractedSuffix ==
    <<"_", "e", "x", "t", "r", "a", "c", "t", "e", "d", ".", "t", "x", "t">>

\* pdf_path.replace('.pdf', '_extracted.txt')
OutputFile(path) == Replace(path, PdfExt, ExtractedSuffix)

\* content[:2000]
Preview(c) == SubSeq(c, 1, IF Len(c) < PreviewLen THEN Len(c) ELSE PreviewLen)

\* variant: the marker already at the preview length
EllipsisAtLimit(c) == IF Len(c) >= PreviewLen THEN <<".", ".", ".">> ELSE <<>>

\* "..." if len(content) > 2000 else ""
Ellipsis(c) == IF Len(c) > PreviewLen THEN <<".", ".", ".">> ELSE <<>>

\* the optional value returned by read_pdf: None or a string
None == [some |-> FALSE, val |-> <<>>]
Some(s) == [some |-> TRUE, val |-> s]
\* variant: `if content is not None:`
NotNone(c) == c.some
\* truth value of `content` in `if content:`
Truthy(c) == c.some /\ Len(c.val) > 0

\* ------------------------------------------------------------ environment
ScriptName == <<"p", "y">>
PathPdf == <<"a", ".", "p", "d", "f">>
PathUpper == <<"a", ".", "P", "D", "F">>
PathNoExt == <<"a">>
PathSub == <<"d", "/", "a", ".", "p", "d", "f">>
PathDirPdf == <<"d", ".", "p", "d", "f", "/", "a", ".", "p", "d", "f">>
Paths == {PathPdf, PathUpper, PathNoExt, PathSub, PathDirPdf}

RECURSIVE LastSlash(_, _)
LastSlash(p, i) == IF i = 0 THEN 0
                   ELSE IF p[i] = "/" THEN i ELSE LastSlash(p, i - 1)
\* directory part of a path (empty for a bare file name)
Dirname(p) == SubSeq(p, 1, LastSlash(p, Len(p)))

\* page texts: empty, short, and texts that put a one-page content exactly
\* at and just above the preview length
BoundaryLen == PreviewLen - (Len(Separator(1)) + 1)
Texts == {<<>>, <<"a">>, Rep("b", BoundaryLen), Rep("b", BoundaryLen + 1)}

PageOutcomes == {[ok |-> TRUE, text |-> t] : t \in Texts}
                    \cup {[ok |-> FALSE, text |-> <<>>]}

PageLists == UNION {[1..n -> PageOutcomes] : n \in 0..MaxPages}

Doc(o, r, c, p) == [openFails |-> o, readerFails |-> r, countFails |-> c,
                    pages |-> p]
NoDoc == Doc(TRUE, FALSE, FALSE, <<>>)
Docs == {Doc(TRUE, FALSE, FALSE, <<>>), Doc(FALSE, TRUE, FALSE, <<>>),
         Doc(FALSE, FALSE, TRUE, <<>>)}
            \cup {Doc(FALSE, FALSE, FALSE, p) : p \in PageLists}

ArgLists == UNION {[1..n -> Paths] : n \in 0..MaxArgs}

Msg(k, n, t) == [kind |-> k, num |-> n, text |-> t]

\* ------------------------------------------------------------------ state
VARIABLES
    sys_argv,      \* script name followed by the arguments
    exists,        \* whether os.path.exists(sys.argv[1]) is true
    doc,           \* what the library does with the input file
    outDirExists,  \* whether the directory of the output path exists
    pc,            \* position in main / read_pdf
    pdf_path,      \* main's pdf_path
    page_num,      \* read_pdf's loop counter
    text_content,  \* read_pdf's list of strings
    content,       \* value returned by read_pdf
    output_file,   \* main's output_file
    console,       \* lines printed, in order
    writes,        \* files written, in order
    extracted,     \* page numbers on which extract_text was called
    existsTests,   \* number of os.path.exists calls
    opens,         \* number of times the input was opened for reading
    handleOpen,    \* whether read_pdf's file handle is open
    exitStatus     \* process exit status once pc = "done"

vars == <<sys_argv, exists, doc, outDirExists, pc, pdf_path, page_num,
          text_content, content, output_file, console, writes, extracted,
          existsTests, opens, handleOpen, exitStatus>>

env == <<sys_argv, exists, doc, outDirExists>>

Init ==
    /\ \E args \in ArgLists : sys_argv = <<ScriptName>> \o args
    /\ exists \in BOOLEAN
    /\ doc \in Docs
    /\ outDirExists \in BOOLEAN
    \* `exists` speaks of the first argument
    /\ (Len(sys_argv) < 2) => (exists = FALSE)
    \* a path that does not exist has no document behind it, and with a
    \* wrong number of arguments the document is never looked at
    /\ (~exists \/ Len(sys_argv) # 2) => (doc = NoDoc)
    /\ (~exists) => (outDirExists = FALSE)
    \* the directory of an existing input exists
    /\ (exists /\ Dirname(OutputFile(sys_argv[2])) = Dirname(sys_argv[2]))
            => outDirExists = TRUE
    /\ pc = "main"
    /\ pdf_path = <<>>
    /\ page_num = 0
    /\ text_content = <<>>
    /\ content = None
    /\ output_file = <<>>
    /\ console = <<>>
    /\ writes = <<>>
    /\ extracted = <<>>
    /\ existsTests = 0
    /\ opens = 0
    /\ handleOpen = FALSE
    /\ exitStatus = NoStatus

Say(m) == console' = Append(console, m)

\* ------------------------------------------------------------------- main
\* variant: `if len(sys.argv) < 2`
CheckArgsAtLeast ==
    /\ pc = "main"
    /\ IF Len(sys_argv) < 2
       THEN /\ Say(Msg("usage", 0, <<>>))
            /\ exitStatus' = ExitFailure
            /\ pc' = "done"
            /\ UNCHANGED pdf_path
       ELSE /\ pdf_path' = sys_argv[2]
            /\ pc' = "exists"
            /\ UNCHANGED <<console, exitStatus>>
    /\ UNCHANGED <<env, page_num, text_content, content, output_file, writes,
                   extracted, existsTests, opens, handleOpen>>

\* if len(sys.argv) != 2: usage, sys.exit(1); pdf_path = sys.argv[1]
CheckArgs ==
    /\ pc = "main"
    /\ IF Len(sys_argv) # 2
       THEN /\ Say(Msg("usage", 0, <<>>))
            /\ exitStatus' = ExitFailure
            /\ pc' = "done"
            /\ UNCHANGED pdf_path
       ELSE /\ pdf_path' = sys_argv[2]
            /\ pc' = "exists"
            /\ UNCHANGED <<console, exitStatus>>
    /\ UNCHANGED <<env, page_num, text_content, content, output_file, writes,
                   extracted, existsTests, opens, handleOpen>>

\* variant: the message without the sys.exit(1)
CheckExistsNoExit ==
    /\ pc = "exists"
    /\ existsTests' = existsTests + 1
    /\ IF ~exists
       THEN Say(Msg("notfound", 0, pdf_path))
       ELSE UNCHANGED console
    /\ pc' = "open"
    /\ UNCHANGED <<env, pdf_path, page_num, text_content, content,
                   output_file, writes, extracted, opens, handleOpen,
                   exitStatus>>

\* if not os.path.exists(pdf_path): File not found, sys.exit(1)
CheckExists ==
    /\ pc = "exists"
    /\ existsTests' = existsTests + 1
    /\ IF ~exists
       THEN /\ Say(Msg("notfound", 0, pdf_path))
            /\ exitStatus' = ExitFailure
            /\ pc' = "done"
       ELSE /\ pc' = "open"
            /\ UNCHANGED <<console, exitStatus>>
    /\ UNCHANGED <<env, pdf_path, page_num, text_content, content,
                   output_file, writes, extracted, opens, handleOpen>>

\* --------------------------------------------------------------- read_pdf
\* with open(file_path, 'rb') as file
OpenInput ==
    /\ pc = "open"
    /\ IF doc.openFails
       THEN /\ pc' = "except"
            /\ UNCHANGED <<opens, handleOpen>>
       ELSE /\ opens' = opens + 1
            /\ handleOpen' = TRUE
            /\ pc' = "reader"
    /\ UNCHANGED <<env, pdf_path, page_num, text_content, content,
                   output_file, console, writes, extracted, existsTests,
                   exitStatus>>

\* pdf_reader = PyPDF2.PdfReader(file); text_content = []; print Reading
ConstructReader ==
    /\ pc = "reader"
    /\ IF doc.readerFails
       THEN /\ handleOpen' = FALSE
            /\ pc' = "except"
            /\ UNCHANGED <<text_content, console>>
       ELSE /\ text_content' = <<>>
            /\ Say(Msg("reading", 0, pdf_path))
            /\ pc' = "count"
            /\ UNCHANGED handleOpen
    /\ UNCHANGED <<env, pdf_path, page_num, content, output_file, writes,
                   extracted, existsTests, opens, exitStatus>>

\* print(f"Number of pages: {len(pdf_reader.pages)}"); print("-" * 50)
CountPages ==
    /\ pc = "count"
    /\ IF doc.countFails
       THEN /\ handleOpen' = FALSE
            /\ pc' = "except"
            /\ UNCHANGED console
       ELSE /\ console' = console \o <<Msg("count", Len(doc.pages), <<>>),
                                       Msg("rule", 0, Rep("-", RuleLen))>>
            /\ pc' = "loop"
            /\ UNCHANGED handleOpen
    /\ UNCHANGED <<env, pdf_path, page_num, text_content, content,
                   output_file, writes, extracted, existsTests, opens,
                   exitStatus>>

\* variant: enumerate(pdf_reader.pages) numbering the lines from 0
LoopNextFromZero ==
    /\ pc = "loop"
    /\ IF page_num < Len(doc.pages)
       THEN /\ page_num' = page_num + 1
            /\ Say(Msg("progress", page_num, <<>>))
            /\ pc' = "extract"
       ELSE /\ pc' = "return"
            /\ UNCHANGED <<page_num, console>>
    /\ UNCHANGED <<env, pdf_path, text_content, content, output_file, writes,
                   extracted, existsTests, opens, handleOpen, exitStatus>>

\* for page_num, page in enumerate(pdf_reader.pages, 1): print Processing
LoopNext ==
    /\ pc = "loop"
    /\ IF page_num < Len(doc.pages)
       THEN /\ page_num' = page_num + 1
            /\ Say(Msg("progress", page_num + 1, <<>>))
            /\ pc' = "extract"
       ELSE /\ pc' = "return"
            /\ UNCHANGED <<page_num, console>>
    /\ UNCHANGED <<env, pdf_path, text_content, content, output_file, writes,
                   extracted, existsTests, opens, handleOpen, exitStatus>>

\* page_text = page.extract_text(); append separator; append page_text
ExtractText ==
    /\ pc = "extract"
    /\ extracted' = Append(extracted, page_num)
    /\ IF ~doc.pages[page_num].ok
       THEN /\ handleOpen' = FALSE
            /\ pc' = "except"
            /\ UNCHANGED text_content
       ELSE /\ text_content' = text_content
                    \o <<Separator(page_num), doc.pages[page_num].text>>
            /\ pc' = "loop"
            /\ UNCHANGED handleOpen
    /\ UNCHANGED <<env, pdf_path, page_num, content, output_file, console,
                   writes, existsTests, opens, exitStatus>>

\* return "\n".join(text_content), leaving the with block
ReturnJoined ==
    /\ pc = "return"
    /\ content' = Some(Join(text_content, NL))
    /\ handleOpen' = FALSE
    /\ pc' = "branch"
    /\ UNCHANGED <<env, pdf_path, page_num, text_content, output_file,
                   console, writes, extracted, existsTests, opens,
                   exitStatus>>

\* except Exception as e: print Error reading PDF; return None
HandleException ==
    /\ pc = "except"
    /\ Say(Msg("error", 0, <<>>))
    /\ content' = None
    /\ pc' = "branch"
    /\ UNCHANGED <<env, pdf_path, page_num, text_content, output_file,
                   writes, extracted, existsTests, opens, handleOpen,
                   exitStatus>>

\* ------------------------------------------------------- main, continued
\* if content: output_file = ...  else: print Failed (and fall off main)
Branch ==
    /\ pc = "branch"
    /\ IF Truthy(content)
       THEN /\ output_file' = OutputFile(pdf_path)
            /\ pc' = "write"
            /\ UNCHANGED <<console, exitStatus>>
       ELSE /\ Say(Msg("failed", 0, <<>>))
            /\ exitStatus' = ExitSuccess
            /\ pc' = "done"
            /\ UNCHANGED output_file
    /\ UNCHANGED <<env, pdf_path, page_num, text_content, content, writes,
                   extracted, existsTests, opens, handleOpen>>

\* with open(output_file, 'w', encoding='utf-8') as f: f.write(content)
WriteOutput ==
    /\ pc = "write"
    /\ IF outDirExists
       THEN /\ writes' = Append(writes, [path |-> output_file,
                                         data |-> content.val,
                                         encoding |-> "utf-8"])
            /\ pc' = "report"
            /\ UNCHANGED exitStatus
       ELSE \* open raises, nothing catches it: traceback, status 1
            /\ exitStatus' = ExitFailure
            /\ pc' = "done"
            /\ UNCHANGED writes
    /\ UNCHANGED <<env, pdf_path, page_num, text_content, content,
                   output_file, console, extracted, existsTests, opens,
                   handleOpen>>

\* the five prints after the write, then main returns
Report ==
    /\ pc = "report"
    /\ console' = console \o
            <<Msg("saved", 0, output_file),
              Msg("first", 0, <<>>),
              Msg("rule", 0, Rep("-", RuleLen)),
              Msg("preview", 0, Preview(content.val)),
              Msg("tail", 0, Ellipsis(content.val))>>
    /\ exitStatus' = ExitSuccess
    /\ pc' = "done"
    /\ UNCHANGED <<env, pdf_path, page_num, text_content, content,
                   output_file, writes, extracted, existsTests, opens,
                   handleOpen>>

Next ==
    \/ CheckArgs
    \/ CheckExists
    \/ OpenInput
    \/ ConstructReader
    \/ CountPages
    \/ LoopNext
    \/ ExtractText
    \/ ReturnJoined
    \/ HandleException
    \/ Branch
    \/ WriteOutput
    \/ Report

Spec == Init /\ [][Next]_vars

\* ------------------------------------------------------------- properties
Done == pc = "done"
Argc == Len(sys_argv) - 1
NumPages == Len(doc.pages)
\* read_pdf(pdf_path) has been called
ReadCalled == Argc = 1 /\ exists /\ pc \notin {"main", "exists"}
\* read_pdf has returned to main
ReadReturned == ReadCalled /\ pc \in {"branch", "write", "report", "done"}
\* the document opens, parses and reports its page count
Readable == ~doc.openFails /\ ~doc.readerFails /\ ~doc.countFails
AllPagesOk == Readable /\ \A i \in 1..NumPages : doc.pages[i].ok
SomePageFails == Readable /\ \E i \in 1..NumPages : ~doc.pages[i].ok
\* read_pdf's result is None or the empty string
NoContent == ~content.some \/ content.val = <<>>
Lines(k) == {i \in DOMAIN console : console[i].kind = k}
Has(k) == Lines(k) # {}
Upto(n) == [i \in 1..n |-> i]

PageMarker(n) ==
    <<"\n", "-", "-", "-", " ", "P", "A", "G", "E", " ">> \o Str(n)
        \o <<" ", "-", "-", "-", "\n">>

\* the text page i contributes under partial-failure semantics
TextOrEmpty(i) == IF doc.pages[i].ok THEN doc.pages[i].text ELSE <<>>

RECURSIVE JoinedPages(_)
\* marker and text of pages 1..k, one newline between consecutive strings
JoinedPages(k) ==
    IF k = 0 THEN <<>>
    ELSE (IF k = 1 THEN <<>> ELSE JoinedPages(k - 1) \o <<"\n">>)
            \o PageMarker(k) \o <<"\n">> \o TextOrEmpty(k)

RECURSIVE ConcatPages(_)
\* marker and text of pages 1..k with nothing in between
ConcatPages(k) ==
    IF k = 0 THEN <<>>
    ELSE ConcatPages(k - 1) \o PageMarker(k) \o TextOrEmpty(k)

\* C1: when some page's extraction fails, all N pages are still processed,
\* the failing pages contribute an empty string, the others their text, and
\* the run succeeds (content returned, output file written, status 0).
C1_PartialFailure ==
    (Done /\ ReadCalled /\ SomePageFails /\ outDirExists) =>
        /\ extracted = Upto(NumPages)
        /\ content = Some(JoinedPages(NumPages))
        /\ Len(writes) = 1
        /\ exitStatus = ExitSuccess

\* C2: when extraction yields no content (None or empty), main prints an
\* error message and the process ends with a non-zero exit status.
C2_NoContentNonZeroExit ==
    (Done /\ ReadCalled /\ NoContent) =>
        /\ Has("failed")
        /\ exitStatus # ExitSuccess

\* C3: with exactly one argument naming a path that does not exist, main
\* prints File not found and exits non-zero before read_pdf is called: the
\* input is never opened, no page is processed, no output file is written.
C3_NotFoundExits ==
    (Argc = 1 /\ ~exists) =>
        /\ pc \in {"main", "exists", "done"}
        /\ opens = 0 /\ ~handleOpen
        /\ extracted = <<>> /\ ~Has("progress")
        /\ writes = <<>>
        /\ Done => /\ console = <<Msg("notfound", 0, sys_argv[2])>>
                   /\ exitStatus # ExitSuccess
                   /\ exitStatus # NoStatus

C3_Witness ==
    Done /\ Argc = 1 /\ ~exists /\ Has("notfound") /\ existsTests = 1

\* C4 (as stated): with N >= 1 pages that all extract, the content is the
\* separators and page texts only, separator n directly before text n.
C4_PlainConcat ==
    (ReadReturned /\ AllPagesOk /\ NumPages >= 1) =>
        content = Some(ConcatPages(NumPages))

\* C4 (amended): with N >= 1 pages that all extract, the content is the 2N
\* strings sep 1, text 1, ..., sep N, text N in document order, each page
\* once, joined with one newline between consecutive strings.
C4_JoinedInOrder ==
    (ReadReturned /\ AllPagesOk /\ NumPages >= 1) =>
        /\ content = Some(JoinedPages(NumPages))
        /\ extracted = Upto(NumPages)
        /\ Len(text_content) = 2 * NumPages
        /\ \A n \in 1..NumPages :
                /\ text_content[2 * n - 1] = PageMarker(n)
                /\ text_content[2 * n] = doc.pages[n].text

C4_Witness ==
    /\ ReadReturned /\ AllPagesOk /\ NumPages = MaxPages
    /\ content.some
    /\ \E i, j \in 1..NumPages : doc.pages[i].text # doc.pages[j].text

\* the name of a path without its last extension
RECURSIVE LastDot(_, _)
LastDot(p, i) == IF i = 0 \/ p[i] = "/" THEN 0
                 ELSE IF p[i] = "." THEN i ELSE LastDot(p, i - 1)
Stem(p) == IF LastDot(p, Len(p)) = 0 THEN p
           ELSE SubSeq(p, 1, LastDot(p, Len(p)) - 1)

\* C5: whenever extraction yields content, main writes exactly that content,
\* exactly once, in UTF-8, to the sibling file <input>_extracted.txt (the
\* input name, with or without its extension, followed by the suffix).
C5_WritesSibling ==
    (Done /\ ReadCalled /\ ~NoContent) =>
        /\ Len(writes) = 1
        /\ writes[1].data = content.val
        /\ writes[1].encoding = "utf-8"
        /\ writes[1].path \in {pdf_path \o ExtractedSuffix,
                               Stem(pdf_path) \o ExtractedSuffix}

Min(a, b) == IF a < b THEN a ELSE b

\* C6: after a successful extraction the preview is exactly the first
\* min(2000, len) characters of the content written, and "..." is printed
\* if and only if the content is longer than 2000 characters.
C6_PreviewPrefix ==
    (Done /\ writes # <<>>) =>
        /\ Cardinality(Lines("preview")) = 1
        /\ Cardinality(Lines("tail")) = 1
        /\ \A i \in Lines("preview") :
            LET shown == console[i].text
                data == writes[1].data
            IN /\ Len(shown) = Min(PreviewLen, Len(data))
               /\ \A k \in 1..Len(shown) : shown[k] = data[k]
               /\ console[i + 1].kind = "tail"
               /\ (console[i + 1].text = <<".", ".", ".">>)
                        <=> (Len(data) > PreviewLen)
               /\ (console[i + 1].text = <<>>)
                        <=> (Len(data) <= PreviewLen)

C6_Witness ==
    /\ Done /\ writes # <<>>
    /\ Len(writes[1].data) = PreviewLen
    /\ \E i \in Lines("preview") :
            console[i].text = writes[1].data /\ console[i + 1].text = <<>>

\* C7: the page count is printed once and before any progress line; the
\* line for page n is printed before page n is extracted; progress lines
\* are numbered 1, 2, ... in ascending order; when every page extracts,
\* the number of progress lines equals the printed page count.
C7_ProgressOrder ==
    /\ Cardinality(Lines("count")) <= 1
    /\ (pc \in {"loop", "extract", "return"}) =>
            Cardinality(Lines("count")) = 1
    /\ \A i \in Lines("progress") : \E j \in Lines("count") : j < i
    /\ \A k \in DOMAIN extracted :
            \E i \in Lines("progress") : console[i].num = extracted[k]
    /\ \A i, j \in Lines("progress") :
            (i < j) => (console[i].num < console[j].num)
    /\ {console[i].num : i \in Lines("progress")}
            = 1..Cardinality(Lines("progress"))
    /\ Len(extracted) <= Cardinality(Lines("progress"))
    /\ (ReadReturned /\ content.some) =>
            \A j \in Lines("count") :
                Cardinality(Lines("progress")) = console[j].num

C7_Witness ==
    /\ ReadReturned /\ content.some /\ NumPages = MaxPages
    /\ Cardinality(Lines("progress")) = MaxPages

\* C8: in every run that reaches the write step, the path opened for
\* writing differs from the input path and lies in the input's directory.
C8_NeverOverwritesInput ==
    (pc = "write") =>
        /\ output_file # pdf_path
        /\ Dirname(output_file) = Dirname(pdf_path)

\* C9: when read_pdf returns None or an empty string, no output file is
\* written, no preview is printed, and the input handle opened by read_pdf
\* is closed before main continues.
C9_NoOutputOnFailure ==
    (ReadReturned /\ NoContent) =>
        /\ writes = <<>>
        /\ ~Has("preview") /\ ~Has("saved") /\ ~Has("tail")
        /\ ~handleOpen
        /\ pc \in {"branch", "done"}

C9_Witness ==
    /\ Done /\ ReadReturned /\ content = Some(<<>>)
    /\ opens = 1 /\ Has("failed")

\* C10: unless exactly one argument is given, main prints the usage message
\* and exits with status 1 before the existence check: no file is tested,
\* opened, read or written; the existence check and read_pdf are reached
\* only with exactly one argument.
C10_ArgumentGuard ==
    /\ (Argc # 1) =>
        /\ pc \in {"main", "done"}
        /\ existsTests = 0 /\ opens = 0 /\ ~handleOpen
        /\ extracted = <<>> /\ writes = <<>>
        /\ Done => /\ console = <<Msg("usage", 0, <<>>)>>
                   /\ exitStatus = ExitFailure
    /\ (existsTests > 0 \/ opens > 0 \/ pc \notin {"main", "done"}) =>
            Argc = 1

C10_Witness ==
    Done /\ Argc = 2 /\ exists /\ Has("usage") /\ exitStatus = ExitFailure

====
